---- MODULE Spec2Model ----
(***************************************************************************)
(* scripts/quantize_minilm.py: locate the MiniLM source model, load it,    *)
(* quantize it (full configuration, then the fallback configuration on any *)
(* error), validate, save and report sizes.  The coremltools toolkit and   *)
(* the filesystem are the environment: every toolkit call may return or    *)
(* raise, and the filesystem starts in any consistent shape.               *)
(***************************************************************************)
EXTENDS Integers, Sequences, FiniteSets, TLC

\* Largest total of file sizes under a bundle directory that is explored.
MaxBytes == 2

RESOURCES_DIR == "Resources"
SOURCE_MODEL == "all-MiniLM-L6-v2.mlmodelc"
OUTPUT_MODEL == "all-MiniLM-L6-v2-W8A8.mlmodelc"
ALT_MLPACKAGE == "all-MiniLM-L6-v2.mlpackage"
ALT_MLMODEL == "model.mlmodel"
\* Any other entry of the Resources directory.
OTHER_ENTRY == "other"

alt_paths == <<ALT_MLPACKAGE, ALT_MLMODEL>>
\* The paths find_model tries, in the order it tries them.
Candidates == <<SOURCE_MODEL>> \o alt_paths
Children == {SOURCE_MODEL, ALT_MLPACKAGE, ALT_MLMODEL, OUTPUT_MODEL, OTHER_ENTRY}
Paths == {RESOURCES_DIR} \cup Children
Bundles == {SOURCE_MODEL, OUTPUT_MODEL}
Kinds == {"absent", "file", "dir"}

\* The keyword arguments of the two OpLinearQuantizerConfig values; a keyword
\* the call does not pass is "unset" (the toolkit's default applies).
config == [mode |-> "linear_symmetric", weight_threshold |-> "None", dtype |-> "int8"]
fallback_config_same == config
fallback_config == [mode |-> "linear_symmetric", weight_threshold |-> "unset", dtype |-> "int8"]
NoConfig == [mode |-> "", weight_threshold |-> "", dtype |-> ""]

\* A model handle: id 0 is None (the variable is not bound yet); src is the
\* id of the handle a quantized handle was produced from.
NoHandle == [id |-> 0, path |-> "", config |-> NoConfig, src |-> 0]
Loaded(n, p) == [id |-> n, path |-> p, config |-> NoConfig, src |-> 0]
Quantized(n, m, c) == [id |-> n, path |-> "", config |-> c, src |-> m.id]

VARIABLES
    fs,               \* path -> kind, the filesystem under Resources
    treeBytes,        \* bundle -> sum of the sizes of the files under it
    outState,         \* "initial" | "saved" | "partial": who wrote OUTPUT_MODEL
    fs0, treeBytes0,  \* the filesystem before the run
    pc,               \* position of the run
    trace,            \* positions the run has been at, in order
    exitStatus,       \* "running" | "zero" | "nonzero"
    failure,          \* what ended the run abnormally, "none" otherwise
    checked,          \* paths whose exists() find_model has called, in order
    log,              \* lines printed, in order
    loads,            \* ct.models.MLModel(path) calls, in order
    quantCalls,       \* cto.linear_quantize_weights calls, in order
    validations,      \* validate_quantization calls, in order
    saves,            \* quantized_model.save calls, in order
    model_path, original_model, model, quantized_model

vars == <<fs, treeBytes, outState, fs0, treeBytes0, pc, trace, exitStatus, failure,
          checked, log, loads, quantCalls, validations, saves,
          model_path, original_model, model, quantized_model>>

envVars == <<fs, treeBytes, outState, fs0, treeBytes0>>
callVars == <<loads, quantCalls, validations, saves>>
localVars == <<model_path, original_model, model, quantized_model>>

----------------------------------------------------------------------------
\* Pure helpers

\* Path.exists()
Exists(f, p) == f[p] # "absent"

\* sum(f.stat().st_size for f in p.rglob("*") if f.is_file()): rglob yields
\* nothing for a path that is not a directory.
TreeSize(f, b, p) == IF f[p] = "dir" THEN b[p] ELSE 0

RECURSIVE FirstExisting(_, _)
\* Index of the first candidate at or after i that exists, 0 when none does.
FirstExisting(f, i) ==
    IF i > Len(Candidates) THEN 0
    ELSE IF Exists(f, Candidates[i]) THEN i
    ELSE FirstExisting(f, i + 1)

\* Index in Candidates of the path find_model returns, 0 when it returns none.
LocateIndex(f) == FirstExisting(f, 1)

ExistsCallsAll(f) == Candidates
\* The exists() calls find_model makes on the candidates, in order.
ExistsCalls(f) ==
    IF LocateIndex(f) = 0 THEN Candidates
    ELSE SubSeq(Candidates, 1, LocateIndex(f))

\* Names RESOURCES_DIR.iterdir() yields.
Listing(f) == {p \in Children : Exists(f, p)}

RECURSIVE Perms(_)
Perms(S) ==
    IF S = {} THEN {<<>>}
    ELSE UNION {{<<x>> \o s : s \in Perms(S \ {x})} : x \in S}

Line(m, a) == [msg |-> m, arg |-> a]
EntryLines(order) == [i \in 1..Len(order) |-> Line("entry", order[i])]

\* Id of the next handle the toolkit creates.
NextId == Len(loads) + Len(quantCalls) + 1

----------------------------------------------------------------------------
TypeOK ==
    /\ fs \in [Paths -> Kinds]
    /\ treeBytes \in [Bundles -> 0..MaxBytes]
    /\ outState \in {"initial", "saved", "partial"}
    /\ exitStatus \in {"running", "zero", "nonzero"}

Init ==
    /\ fs \in [Paths -> Kinds]
    /\ fs[RESOURCES_DIR] # "dir" => \A p \in Children : fs[p] = "absent"
    /\ fs[OTHER_ENTRY] # "dir"
    /\ treeBytes \in [Bundles -> 0..MaxBytes]
    /\ \A p \in Bundles : fs[p] # "dir" => treeBytes[p] = 0
    /\ fs0 = fs
    /\ treeBytes0 = treeBytes
    /\ outState = "initial"
    /\ pc = "import"
    /\ trace = <<"import">>
    /\ exitStatus = "running"
    /\ failure = "none"
    /\ checked = <<>>
    /\ log = <<>>
    /\ loads = <<>>
    /\ quantCalls = <<>>
    /\ validations = <<>>
    /\ saves = <<>>
    /\ model_path = ""
    /\ original_model = NoHandle
    /\ model = NoHandle
    /\ quantized_model = NoHandle

\* The run moves to position p.
Goto(p) ==
    /\ pc' = p
    /\ trace' = Append(trace, p)

\* sys.exit(1), or an exception nothing catches: the run ends, status non-zero.
Fail(kind) ==
    /\ Goto("failed")
    /\ exitStatus' = "nonzero"
    /\ failure' = kind

Continue(p) ==
    /\ Goto(p)
    /\ UNCHANGED <<exitStatus, failure>>

\* A position, or the end of the run when nothing handles the error.
Step(p, kind) == IF p = "failed" THEN Fail(kind) ELSE Continue(p)

----------------------------------------------------------------------------
\* Where each call leaves the run, by whether it returned (ok) or raised.

find_model_default(f) ==
    IF LocateIndex(f) = 0 THEN SOURCE_MODEL ELSE Candidates[LocateIndex(f)]
\* What find_model returns; "" when it reaches sys.exit(1) instead.
find_model_result(f) ==
    IF LocateIndex(f) = 0 THEN "" ELSE Candidates[LocateIndex(f)]

AfterQuantizeLoadCaught(ok) == IF ok THEN "q_loaded" ELSE "except"
\* The load in quantize_model precedes the try block: an error leaves the run.
AfterQuantizeLoad(ok) == IF ok THEN "q_loaded" ELSE "failed"

AfterFullNoReturn(ok) == "except"
\* try: return the result; except Exception: enter the handler.
AfterFull(ok) == IF ok THEN "quantize_full" ELSE "except"

AfterFallbackSwallowed(ok) == "quantize_fallback"
\* The call in the handler is not guarded: an error leaves the run.
AfterFallback(ok) == IF ok THEN "quantize_fallback" ELSE "failed"

ValidateArgsQuantizeInput == [original |-> model, quantized |-> quantized_model]
\* validate_quantization(original_model, quantized_model)
ValidateArgs == [original |-> original_model, quantized |-> quantized_model]

SaveReadyEarly == pc \in {"quantize_full", "quantize_fallback", "validated"}
\* The save follows the validation.
SaveReady == pc = "validated"

ReportEnteredOutputOnly(f) == Exists(f, OUTPUT_MODEL)
\* if SOURCE_MODEL.exists() and OUTPUT_MODEL.exists():
ReportEntered(f) == Exists(f, SOURCE_MODEL) /\ Exists(f, OUTPUT_MODEL)

----------------------------------------------------------------------------
\* Actions

\* import coremltools, or report that it is missing and exit.
ImportToolkit ==
    /\ pc = "import"
    /\ \E installed \in BOOLEAN :
        IF installed
        THEN /\ Continue("start")
             /\ UNCHANGED log
        ELSE /\ log' = log \o <<Line("Error: coremltools not installed.", ""),
                                Line("Install with", "")>>
             /\ Fail("import")
    /\ UNCHANGED <<envVars, callVars, localVars, checked>>

\* main's banner and model_path = find_model()
FindModel ==
    /\ pc = "start"
    /\ checked' = ExistsCalls(fs)
    /\ LET r == find_model_result(fs)
           banner == <<Line("Wax MiniLM-L6-v2 W8A8 Quantization", "")>>
           notFound == banner \o <<Line("Error: Could not find source model at", SOURCE_MODEL),
                                   Line("Available files in Resources:", "")>>
       IN  IF r # ""
           THEN /\ model_path' = r
                /\ log' = log \o banner
                /\ Continue("located")
           ELSE /\ model_path' = model_path
                /\ IF ~Exists(fs, RESOURCES_DIR)
                   THEN /\ log' = log \o notFound
                        /\ Fail("locate")
                   ELSE IF fs[RESOURCES_DIR] = "dir"
                   THEN /\ \E order \in Perms(Listing(fs)) :
                              log' = log \o notFound \o EntryLines(order)
                        /\ Fail("locate")
                   ELSE \* iterdir() on a file raises NotADirectoryError
                        /\ log' = log \o notFound
                        /\ Fail("listing")
    /\ UNCHANGED <<envVars, callVars, original_model, model, quantized_model>>

\* original_model = ct.models.MLModel(str(model_path))
LoadOriginal ==
    /\ pc = "located"
    /\ \E ok \in BOOLEAN :
        /\ loads' = Append(loads, [path |-> model_path, ok |-> ok])
        /\ original_model' = IF ok THEN Loaded(NextId, model_path) ELSE original_model
        /\ Step(IF ok THEN "loaded" ELSE "failed", "load")
    /\ UNCHANGED <<envVars, quantCalls, validations, saves, checked, log,
                   model_path, model, quantized_model>>

\* quantize_model up to the try block: it loads the model at model_path itself.
QuantizeLoad ==
    /\ pc = "loaded"
    /\ \E ok \in BOOLEAN :
        /\ loads' = Append(loads, [path |-> model_path, ok |-> ok])
        /\ model' = IF ok THEN Loaded(NextId, model_path) ELSE model
        /\ log' = log \o <<Line("Loading model from:", model_path)>>
                      \o (IF ok THEN <<Line("Model info:", "")>> ELSE <<>>)
        /\ Step(AfterQuantizeLoad(ok), "load")
    /\ UNCHANGED <<envVars, quantCalls, validations, saves, checked,
                   model_path, original_model, quantized_model>>

\* config = ...; try: cto.linear_quantize_weights(model, config)
QuantizeFull ==
    /\ pc = "q_loaded"
    /\ \E ok \in BOOLEAN :
        /\ quantCalls' = Append(quantCalls, [model |-> model.id, config |-> config, ok |-> ok])
        /\ quantized_model' = IF ok THEN Quantized(NextId, model, config) ELSE quantized_model
        /\ log' = log \o <<Line("Applying W8A8 quantization...", "")>>
                      \o (IF ok
                          THEN <<Line("Quantization complete", "")>>
                          ELSE <<Line("Warning: Full W8A8 not supported, falling back to weight-only quantization", ""),
                                 Line("Error:", "")>>)
        /\ Step(AfterFull(ok), "full")
    /\ UNCHANGED <<envVars, loads, validations, saves, checked,
                   model_path, original_model, model>>

\* except: fallback_config = ...; cto.linear_quantize_weights(model, fallback_config)
QuantizeFallback ==
    /\ pc = "except"
    /\ \E ok \in BOOLEAN :
        /\ quantCalls' = Append(quantCalls,
                                [model |-> model.id, config |-> fallback_config, ok |-> ok])
        /\ quantized_model' = IF ok THEN Quantized(NextId, model, fallback_config)
                                    ELSE quantized_model
        /\ log' = log \o (IF ok THEN <<Line("Weight-only INT8 quantization complete", "")>>
                                ELSE <<>>)
        /\ Step(AfterFallback(ok), "fallback")
    /\ UNCHANGED <<envVars, loads, validations, saves, checked,
                   model_path, original_model, model>>

\* validate_quantization(original_model, quantized_model): prints only.
Validate ==
    /\ pc \in {"quantize_full", "quantize_fallback"}
    /\ validations' = Append(validations, ValidateArgs)
    /\ log' = log \o <<Line("Quantization validation:", ""),
                       Line("Model quantized successfully", "")>>
    /\ Continue("validated")
    /\ UNCHANGED <<envVars, loads, quantCalls, saves, checked, localVars>>

\* quantized_model.save(str(OUTPUT_MODEL)): the toolkit writes a bundle or a
\* file, or raises having written nothing or a part.
Save ==
    /\ SaveReady
    /\ log' = log \o <<Line("Saving quantized model to:", OUTPUT_MODEL)>>
    /\ \E ok \in BOOLEAN, written \in BOOLEAN, kind \in {"file", "dir"}, bytes \in 0..MaxBytes :
        /\ kind = "file" => bytes = 0
        /\ ok => written
        /\ saves' = Append(saves, [handle |-> quantized_model.id, path |-> OUTPUT_MODEL, ok |-> ok])
        /\ IF written
           THEN /\ fs' = [fs EXCEPT ![OUTPUT_MODEL] = kind]
                /\ treeBytes' = [treeBytes EXCEPT ![OUTPUT_MODEL] = bytes]
                /\ outState' = IF ok THEN "saved" ELSE "partial"
           ELSE UNCHANGED <<fs, treeBytes, outState>>
        /\ Step(IF ok THEN "saved" ELSE "failed", "save")
    /\ UNCHANGED <<fs0, treeBytes0, loads, quantCalls, validations, checked, localVars>>

\* The size comparison: the reduction divides by original_size.
Report ==
    /\ pc = "saved"
    /\ LET original_size == TreeSize(fs, treeBytes, SOURCE_MODEL)
           quantized_size == TreeSize(fs, treeBytes, OUTPUT_MODEL)
       IN  IF ReportEntered(fs)
           THEN /\ log' = log \o <<Line("Size comparison:", ""),
                                   Line("Original:", ToString(original_size)),
                                   Line("Quantized:", ToString(quantized_size))>>
                              \o (IF original_size = 0 THEN <<>>
                                  ELSE <<Line("Reduction:", "")>>)
                /\ Step(IF original_size = 0 THEN "failed" ELSE "reported", "zero_division")
           ELSE /\ UNCHANGED log
                /\ Continue("reported")
    /\ UNCHANGED <<envVars, callVars, checked, localVars>>

\* The closing lines; main returns and the interpreter exits with status 0.
Finish ==
    /\ pc = "reported"
    /\ log' = log \o <<Line("Done! Update MiniLMEmbeddings.swift to load the quantized model.", "")>>
    /\ Goto("done")
    /\ exitStatus' = "zero"
    /\ UNCHANGED <<envVars, callVars, checked, localVars, failure>>

Next ==
    \/ ImportToolkit
    \/ FindModel
    \/ LoadOriginal
    \/ QuantizeLoad
    \/ QuantizeFull
    \/ QuantizeFallback
    \/ Validate
    \/ Save
    \/ Report
    \/ Finish

Spec == Init /\ [][Next]_vars

----------------------------------------------------------------------------
\* Vocabulary of the properties

HasLine(m) == \E i \in 1..Len(log) : log[i].msg = m
Visited(p) == \E i \in 1..Len(trace) : trace[i] = p
WasChecked(p) == \E i \in 1..Len(checked) : checked[i] = p
FindModelRan == checked # <<>>
NoCandidateExists == \A i \in 1..Len(Candidates) : ~Exists(fs0, Candidates[i])
OutputUntouched ==
    /\ fs[OUTPUT_MODEL] = fs0[OUTPUT_MODEL]
    /\ treeBytes[OUTPUT_MODEL] = treeBytes0[OUTPUT_MODEL]
    /\ outState = "initial"
SaveSucceeded == \E i \in 1..Len(saves) : saves[i].ok
\* The run is past the size-reporting step of a run whose save succeeded.
PastReport == SaveSucceeded /\ pc # "saved"
FallingBackWarning ==
    "Warning: Full W8A8 not supported, falling back to weight-only quantization"

\* The positions that are stages of the pipeline's state machine.
SpecStages == {"start", "located", "loaded", "quantize_full", "quantize_fallback",
               "validated", "saved", "reported", "done"}
IsStage(p) == p \in SpecStages
StageTrace == SelectSeq(trace, IsStage)
StageOrder(q) == <<"start", "located", "loaded", q, "validated", "saved", "reported", "done">>
IsPrefix(s, t) == Len(s) <= Len(t) /\ \A i \in 1..Len(s) : s[i] = t[i]

----------------------------------------------------------------------------
\* C1: whatever subset of the three candidate paths exists, find_model returns
\* the first existing one in the order .mlmodelc, .mlpackage, model.mlmodel,
\* and calls exists() on no candidate after the one it returns.
C1_FirstExistingNoLaterCheck ==
    FindModelRan =>
        /\ ~NoCandidateExists => model_path # ""
        /\ model_path # "" =>
            \E i \in 1..Len(Candidates) :
                /\ Candidates[i] = model_path
                /\ Exists(fs0, Candidates[i])
                /\ \A j \in 1..(i - 1) : ~Exists(fs0, Candidates[j]) /\ WasChecked(Candidates[j])
                /\ \A j \in (i + 1)..Len(Candidates) : ~WasChecked(Candidates[j])

C1_Witness ==
    /\ model_path = ALT_MLPACKAGE
    /\ Exists(fs0, ALT_MLMODEL)
    /\ checked = <<SOURCE_MODEL, ALT_MLPACKAGE>>

\* C2: when none of the three candidates exists the run ends with a non-zero
\* status, having loaded no model, attempted no quantization and left the
\* output path alone; directory entries are listed only if Resources exists.
C2_NotFoundIsFatal ==
    (FindModelRan /\ NoCandidateExists) =>
        /\ pc = "failed"
        /\ exitStatus = "nonzero"
        /\ loads = <<>>
        /\ quantCalls = <<>>
        /\ saves = <<>>
        /\ OutputUntouched
        /\ HasLine("entry") => Exists(fs0, RESOURCES_DIR)

C2_Witness ==
    /\ FindModelRan
    /\ NoCandidateExists
    /\ failure = "locate"
    /\ HasLine("entry")

\* C3: when the call with the full configuration returns, the quantizer is
\* called exactly once in the run, the handler is never entered, and the
\* handle that call produced is the one validated and saved.
C3_FullSuccessNoFallback ==
    (quantCalls # <<>> /\ quantCalls[1].ok) =>
        /\ Len(quantCalls) = 1
        /\ quantCalls[1].config = config
        /\ ~Visited("except")
        /\ quantized_model = Quantized(Len(loads) + 1, model, config)
        /\ \A i \in 1..Len(validations) : validations[i].quantized = quantized_model
        /\ \A i \in 1..Len(saves) : saves[i].handle = quantized_model.id

C3_Witness ==
    /\ quantCalls # <<>>
    /\ quantCalls[1].ok
    /\ validations # <<>>
    /\ pc = "done"

C5_SingleFileSkipsReport ==
    (PastReport /\ (fs[SOURCE_MODEL] = "file" \/ fs[OUTPUT_MODEL] = "file")) =>
        /\ ~HasLine("Size comparison:")
        /\ pc \in {"reported", "done"}
        /\ exitStatus # "nonzero"

\* C6: when a load of the model at the resolved path fails the run ends with
\* a non-zero status: no quantization call is made, the handler is not
\* entered and the output path is not written.
C6_LoadFailureIsFatal ==
    (\E i \in 1..Len(loads) : ~loads[i].ok) =>
        /\ pc = "failed"
        /\ exitStatus = "nonzero"
        /\ failure = "load"
        /\ \A i \in 1..Len(loads) : loads[i].path = model_path
        /\ quantCalls = <<>>
        /\ ~Visited("except")
        /\ saves = <<>>
        /\ OutputUntouched

C6_Witness ==
    /\ Len(loads) = 2
    /\ loads[1].ok
    /\ ~loads[2].ok
    /\ pc = "failed"

\* C7: when both quantization calls raise, the second error ends the run with
\* a non-zero status and there is no validation, save or size report; and a
\* run that ended in an error before the save left the output path as it was.
C7_DoubleFailureIsFatal ==
    /\ (Len(quantCalls) = 2 /\ ~quantCalls[2].ok) =>
        /\ pc = "failed"
        /\ exitStatus = "nonzero"
        /\ failure = "fallback"
        /\ validations = <<>>
        /\ saves = <<>>
        /\ ~HasLine("Size comparison:")
    /\ (pc = "failed" /\ saves = <<>>) => OutputUntouched

C7_Witness ==
    /\ Len(quantCalls) = 2
    /\ ~quantCalls[1].ok
    /\ ~quantCalls[2].ok
    /\ Exists(fs0, OUTPUT_MODEL)
    /\ pc = "failed"

\* C8: the stages a run enters are a prefix of start, located, loaded,
\* quantize_full or quantize_fallback, validated, saved, reported, done, each
\* entered once; the save follows a successful quantization and the
\* validation, and a run at done has saved the quantized handle to OUTPUT_MODEL.
C8_StageOrder ==
    /\ \E q \in {"quantize_full", "quantize_fallback"} : IsPrefix(StageTrace, StageOrder(q))
    /\ saves # <<>> =>
        /\ Len(validations) = 1
        /\ \E i \in 1..Len(quantCalls) : quantCalls[i].ok
        /\ quantized_model # NoHandle
        /\ validations[1].quantized = quantized_model
    /\ pc \in {"saved", "reported", "done"} =>
        saves = <<[handle |-> quantized_model.id, path |-> OUTPUT_MODEL, ok |-> TRUE]>>
    /\ pc = "done" =>
        /\ exitStatus = "zero"
        /\ outState = "saved"
        /\ Exists(fs, OUTPUT_MODEL)

C8_Witness ==
    /\ pc = "done"
    /\ StageTrace = StageOrder("quantize_fallback")

\* C9 as stated: after a successful save the size report is printed exactly
\* when the path the locator returned and the output path both exist; when
\* either is absent the report is skipped and the run ends with status zero.
C9_ReportIffLocatedExists ==
    PastReport =>
        /\ HasLine("Size comparison:") <=> (Exists(fs, model_path) /\ Exists(fs, OUTPUT_MODEL))
        /\ ~(Exists(fs, model_path) /\ Exists(fs, OUTPUT_MODEL)) =>
            /\ pc \in {"reported", "done"}
            /\ exitStatus # "nonzero"

\* C9 amended: after a successful save the size report is begun (its heading
\* and the two sizes are printed) exactly when the primary path SOURCE_MODEL
\* and the output path both exist, whichever candidate the locator returned;
\* when either is absent the report is skipped silently and the run ends with
\* status zero.
C9_ReportIffPrimaryExists ==
    PastReport =>
        /\ HasLine("Size comparison:") <=> (Exists(fs, SOURCE_MODEL) /\ Exists(fs, OUTPUT_MODEL))
        /\ HasLine("Size comparison:") => HasLine("Original:") /\ HasLine("Quantized:")
        /\ ~(Exists(fs, SOURCE_MODEL) /\ Exists(fs, OUTPUT_MODEL)) =>
            /\ pc \in {"reported", "done"}
            /\ exitStatus # "nonzero"
            /\ pc = "done" => exitStatus = "zero"

C9_Witness ==
    /\ pc = "done"
    /\ model_path = ALT_MLPACKAGE
    /\ Exists(fs, model_path)
    /\ Exists(fs, OUTPUT_MODEL)
    /\ ~HasLine("Size comparison:")

\* C10 as stated: within one run the source model is loaded exactly once, at
\* the resolved path, and that one handle is the input of every quantization
\* call and the original given to the validation.
C10_LoadedOnce ==
    /\ Len(loads) <= 1
    /\ \A i \in 1..Len(loads) : loads[i].path = model_path
    /\ \A i \in 1..Len(quantCalls) : quantCalls[i].model = original_model.id
    /\ \A i \in 1..Len(validations) : validations[i].original = original_model

\* C10 amended: a run that reaches quantization has loaded the source model
\* twice, both times at the resolved path: the handle main loaded is the
\* original given to the validation, the handle quantize_model loaded is the
\* input of every quantization call, and neither is replaced afterwards.
C10_LoadedTwice ==
    /\ Len(loads) <= 2
    /\ \A i \in 1..Len(loads) : loads[i].path = model_path
    /\ (loads # <<>> /\ loads[1].ok) => original_model = Loaded(1, model_path)
    /\ (Len(loads) = 2 /\ loads[2].ok) => model = Loaded(2, model_path)
    /\ quantCalls # <<>> => Len(loads) = 2 /\ loads[1].ok /\ loads[2].ok
    /\ \A i \in 1..Len(quantCalls) :
        quantCalls[i].model = model.id /\ quantCalls[i].model # original_model.id
    /\ \A i \in 1..Len(validations) :
        /\ validations[i].original = original_model
        /\ validations[i].original.path = model_path
        /\ validations[i].quantized.src = model.id

C10_Witness ==
    /\ pc = "done"
    /\ Len(loads) = 2
    /\ validations # <<>>
====
